---- MODULE Spec2Model ----
(***************************************************************************)
(* Vote reconciliation and placeholder accounting of telegram-ballot-guard.*)
(* One poll record (the Poll document of the store) and the operations     *)
(* that read and write it: the poll_answer handler (named votes), the poll *)
(* handler (pushed snapshots), the /refreshpoll command, the scheduler's   *)
(* updateTrackedPolls, and the model methods addVote and close.            *)
(***************************************************************************)
EXTENDS Integers, Sequences, FiniteSets, Bags, TLC

\* ---------------------------------------------------------------- bounds
\* Number of Telegram users that send poll_answer events.
MaxUsers == 1
\* Their ids are UserIdBase + 1 .. UserIdBase + MaxUsers.
UserIdBase == 500
\* Largest per-option voter_count a snapshot carries.
MaxCount == 1
\* The same, where only the aggregate paths act (SpecAggregate).
AggMaxCount == 2
\* Users voting by name beside each other (SpecNamed).
MaxNamedUsers == 2
\* Entities of the /newpoll message (SpecRoster).
MaxMentions == 2

\* Polls in the collection (SpecResolver).
MaxPolls == 3
\* Saves the clock of SpecResolver counts.
MaxTime == 4

\* Polls one run of updateTrackedPolls takes (MAX_POLLS_TO_CHECK, 50 in the
\* source), scaled down with MaxPolls so that the tracked polls can exceed it.
MAX_POLLS_TO_CHECK == 2
\* Calls of setupPollingService in one behaviour.
MaxSetups == 4
\* Runs of updateTrackedPolls in progress at once.
MaxRuns == 2

\* ------------------------------------------------------- program constants
\* poll_id.substring(0, 10)
PrefixLen == 10
\* options.length >= 2 (schema validator); the modelled poll has exactly that many.
MinOptions == 2
\* baseId = -1000000 * (i + 1)
PlaceholderBase == 1000000
\* if (newVoterCount < 0 || newVoterCount > 10000)
MaxSaneCount == 10000
\* const TELEGRAM_MAX_RETRIES = 3
TELEGRAM_MAX_RETRIES == 3

NumOptions == MinOptions
\* Cap on the number of negative ids one option may hold (the code has none):
\* one more than the largest voter_count observed.
MaxPlaceholders == MaxCount + 1
AggMaxPlaceholders == AggMaxCount + 1
\* Longest option_ids array of a poll_answer event.
MaxSel == NumOptions
OptionIdx == 0 .. (NumOptions - 1)
Users == (UserIdBase + 1) .. (UserIdBase + MaxUsers)

\* user.username / first_name / last_name of the Telegram user with id u.
UserName(u) == <<"user", u>>
FirstName(u) == <<"first", u>>
LastName(u) == <<"last", u>>
\* null / undefined where a string is expected
Null == <<"null">>
\* userId: null of a mention that is not resolved yet (falsy in !mention.userId)
NullId == 0
\* A voter count for which typeof x === 'number' is false; an integer outside
\* every range the handlers compare against stands for it.
NotANumber == (0 - 3) * MaxSaneCount
IsNumber(x) == x # NotANumber

VARIABLES
    db,         \* the persisted Poll document
    inflight,   \* copies loaded by handlers that have not saved yet
    retired,    \* per option: negative ids that were removed from voterIds
    namedSaved, \* <<u, k>>: a poll_answer handler saved u into option k
    truth,      \* platform side: the option each user currently votes for
    pending,    \* platform side: events produced and not yet delivered
    maxTrue,    \* platform side: largest true voter count each option has had
    polls,      \* the Poll collection the resolver of poll_answer searches
    now,        \* the clock that stamps updatedAt
    lastLookup, \* the last poll_answer resolved against the collection
    sched,      \* the scheduler: its timers, the batch of a run and what it did
    result,     \* how the last handler call ended for its caller
    extent      \* per option: existingVotes and the lowest negative id held

vars == <<db, inflight, retired, namedSaved, truth, pending, maxTrue, polls, now, lastLookup, sched, result, extent>>

\* ------------------------------------------------------------ array helpers
\* voterIds is an array of numbers. Every operation the handlers apply to it
\* (push, spread-concatenation, filter, includes, Math.min, sort + slice) gives
\* the same elements whatever the order of the array, so the array is kept as
\* the bag of its elements: b[id] is how many times id occurs.
EmptyArray == EmptyBag
\* arr.length
Length(b) == BagCardinality(b)
\* arr.filter(keep), kept being the values keep accepts
Filter(b, kept) == [ id \in kept \cap DOMAIN b |-> b[id] ]
\* arr.filter(id => id < 0)
Negatives(b) == Filter(b, { id \in DOMAIN b : id < 0 })
\* arr.filter(id => id > 0)
Positives(b) == Filter(b, { id \in DOMAIN b : id > 0 })
\* arr.includes(x)
Includes(b, x) == x \in DOMAIN b
\* arr.filter(id => id !== x)
Without(b, x) == Filter(b, { id \in DOMAIN b : id # x })
\* arr.push(x)
Push(b, x) == b (+) SetToBag({x})
\* [...a, ...b]
Concat(a, b) == a (+) b
\* Math.min(...arr) of a non-empty array
MinOf(b) == CHOOSE m \in DOMAIN b : \A x \in DOMAIN b : m <= x
\* Array.from({ length: n }, (_, idx) => start - idx)
Descending(start, n) == SetToBag({ start - k : k \in 0 .. (n - 1) })
\* arr.sort((a, b) => a - b).slice(0, n), as the set of the values it holds:
\* x is among the first n of the ascending order when fewer than n elements
\* are smaller than x.
LowestValues(b, n) ==
    { x \in DOMAIN b : Length(Filter(b, { y \in DOMAIN b : y < x })) < n }

RECURSIVE SumLen(_, _)
SumLen(f, S) ==
    IF S = {} THEN 0
    ELSE LET i == CHOOSE x \in S : TRUE IN Length(f[i]) + SumLen(f, S \ {i})

\* const baseId = -1000000 * (i + 1)
BaseId(i) == (0 - PlaceholderBase) * (i + 1)

\* ------------------------------------------------ Total-Count Reconciler
\* RecomputeTotal with uniqueVoters an array: an id counts once per option.
RecomputeTotalPerOption(options) ==
    LET named == [ i \in DOMAIN options |-> Positives(options[i].voterIds) ]
        negs == [ i \in DOMAIN options |-> Negatives(options[i].voterIds) ]
    IN SumLen(named, DOMAIN options) + SumLen(negs, DOMAIN options)

\* uniqueVoters.size + placeholderVotes of the poll_answer handler.
RecomputeTotal(options) ==
    LET uniqueVoters == UNION { DOMAIN Positives(options[i].voterIds) : i \in DOMAIN options }
        negs == [ i \in DOMAIN options |-> Negatives(options[i].voterIds) ]
    IN Cardinality(uniqueVoters) + SumLen(negs, DOMAIN options)

\* --------------------------------------------- bot.on('poll'): snapshot push
\* Start of the new placeholder run: below the lowest negative id of the option.
PollLastPlaceholderId(voterIds, i) ==
    LET negativeIds == Negatives(voterIds)
    IN IF Length(negativeIds) > 0 THEN MinOf(negativeIds) - 1 ELSE BaseId(i) - 1

\* OnPollOption with the assignment dbOption.existingVotes = newVoterCount left out.
OnPollOptionNoBaseline(dbOption, i, newVoterCount) ==
    IF IsNumber(newVoterCount) /\ newVoterCount > dbOption.existingVotes
    THEN LET newVotes == newVoterCount - dbOption.existingVotes
             newVoterIds == Descending(PollLastPlaceholderId(dbOption.voterIds, i), newVotes)
         IN [ dbOption EXCEPT !.voterIds = Concat(dbOption.voterIds, newVoterIds) ]
    ELSE dbOption

\* Body of the per-option loop of the poll handler.
OnPollOption(dbOption, i, newVoterCount) ==
    IF IsNumber(newVoterCount) /\ newVoterCount > dbOption.existingVotes
    THEN LET newVotes == newVoterCount - dbOption.existingVotes
             newVoterIds == Descending(PollLastPlaceholderId(dbOption.voterIds, i), newVotes)
         IN [ dbOption EXCEPT !.voterIds = Concat(dbOption.voterIds, newVoterIds),
                              !.existingVotes = newVoterCount ]
    ELSE dbOption

\* OnPoll without the test of dbPoll.isTracked.
OnPollAnyPoll(dbPoll, poll) ==
    [ dbPoll EXCEPT
        !.total_voter_count = poll.total_voter_count,
        !.options = [ i \in DOMAIN dbPoll.options |->
                        OnPollOption(dbPoll.options[i], i, poll.options[i]) ] ]

\* The document the poll handler saves (the handler returns before this when
\* the poll is closed).
OnPoll(dbPoll, poll) ==
    [ dbPoll EXCEPT
        !.total_voter_count = poll.total_voter_count,
        !.options = IF dbPoll.isTracked
                    THEN [ i \in DOMAIN dbPoll.options |->
                             OnPollOption(dbPoll.options[i], i, poll.options[i]) ]
                    ELSE dbPoll.options ]

\* ------------------------------------------- updateTrackedPolls: scheduler
\* Start of the new placeholder run as the scheduler computes it.
SchedLowestExistingId(voterIds, i) ==
    LET baseId == BaseId(i)
        negativeIds == Filter(voterIds, { id \in DOMAIN voterIds : id < 0 /\ id >= baseId })
    IN IF Length(negativeIds) > 0 THEN MinOf(negativeIds) - 1 ELSE baseId - 1

\* Body of the per-option loop of updateTrackedPolls.
UpdateTrackedOption(pollOption, i, newVoterCount) ==
    IF ~IsNumber(newVoterCount) THEN pollOption
    ELSE IF newVoterCount < 0 \/ newVoterCount > MaxSaneCount THEN pollOption
    ELSE IF newVoterCount > pollOption.existingVotes
    THEN LET newVotes == newVoterCount - pollOption.existingVotes
             placeholderIds == Descending(SchedLowestExistingId(pollOption.voterIds, i), newVotes)
         IN [ pollOption EXCEPT !.voterIds = Concat(pollOption.voterIds, placeholderIds),
                                !.existingVotes = newVoterCount ]
    ELSE pollOption

\* "Check if anything changed": the scheduler goes on only past this test.
SchedChanged(poll, telegramPoll) ==
    /\ IsNumber(telegramPoll.total_voter_count)
    /\ telegramPoll.total_voter_count # poll.total_voter_count

\* The document updateTrackedPolls saves for one poll whose snapshot changed.
UpdateTrackedPoll(poll, telegramPoll) ==
    [ poll EXCEPT
        !.total_voter_count = telegramPoll.total_voter_count,
        !.options = [ i \in DOMAIN poll.options |->
                        UpdateTrackedOption(poll.options[i], i, telegramPoll.options[i]) ] ]

\* One pass of the loop body for a fetched poll: `continue` when nothing
\* changed, the saved document otherwise.
RefreshTrackedPoll(poll, telegramPoll) ==
    IF SchedChanged(poll, telegramPoll) THEN UpdateTrackedPoll(poll, telegramPoll) ELSE poll

\* ----------------------------------------------- bot.command('refreshpoll')
\* voteDiff < 0: placeholderIds sorted ascending, the first |voteDiff| removed.
RefreshRemove(voterIds, n) ==
    LET idsToRemove == LowestValues(Negatives(voterIds), n)
    IN Filter(voterIds, { id \in DOMAIN voterIds : id \notin idsToRemove })

\* Body of the per-option loop of /refreshpoll.
RefreshPollOption(pollOption, i, newVoterCount) ==
    IF IsNumber(newVoterCount) /\ newVoterCount # pollOption.existingVotes
    THEN LET voteDiff == newVoterCount - pollOption.existingVotes
             newIds == IF voteDiff > 0
                       THEN Concat(pollOption.voterIds,
                                   Descending(PollLastPlaceholderId(pollOption.voterIds, i), voteDiff))
                       ELSE RefreshRemove(pollOption.voterIds, 0 - voteDiff)
         IN [ pollOption EXCEPT !.voterIds = newIds, !.existingVotes = newVoterCount ]
    ELSE pollOption

\* RefreshPoll with the options put in the order of their counts when the
\* last option has more votes than the first.
RefreshPollSorted(poll, telegramPoll) ==
    LET refreshed == [ i \in DOMAIN poll.options |->
                         RefreshPollOption(poll.options[i], i, telegramPoll.options[i]) ]
        last == NumOptions - 1
    IN [ poll EXCEPT
           !.total_voter_count = IF ~IsNumber(telegramPoll.total_voter_count)
                                 THEN 0 ELSE telegramPoll.total_voter_count,
           !.options = IF refreshed[last].existingVotes > refreshed[0].existingVotes
                       THEN [ i \in DOMAIN poll.options |-> refreshed[last - i] ]
                       ELSE refreshed ]

\* The document /refreshpoll saves (it replies and returns before this when
\* the poll is not tracked).
RefreshPoll(poll, telegramPoll) ==
    [ poll EXCEPT
        !.total_voter_count = IF ~IsNumber(telegramPoll.total_voter_count)
                              THEN 0 ELSE telegramPoll.total_voter_count,
        !.options = [ i \in DOMAIN poll.options |->
                        RefreshPollOption(poll.options[i], i, telegramPoll.options[i]) ] ]

\* ------------------------------------ bot.on('poll_answer'): named votes
\* RemoveUser with a filter that keeps the negative ids only.
RemoveUserAllNamed(options, uid) ==
    [ i \in DOMAIN options |->
        [ options[i] EXCEPT !.voterIds = Negatives(options[i].voterIds) ] ]

\* RemoveUser with a filter that keeps every id, user.id included.
RemoveUserNone(options, uid) ==
    [ i \in DOMAIN options |->
        [ options[i] EXCEPT !.voterIds = Filter(options[i].voterIds, DOMAIN options[i].voterIds) ] ]

\* option.voterIds.filter(...) of every option: user.id dropped, all else kept.
RemoveUser(options, uid) ==
    [ i \in DOMAIN options |->
        [ options[i] EXCEPT !.voterIds = Without(options[i].voterIds, uid) ] ]

\* AddNamedVote with the test !voterIds.includes(user.id) left out.
AddNamedVoteNoCheck(option, uid) ==
    LET pushed == Push(option.voterIds, uid)
        realVoterCount == Length(Positives(pushed))
    IN [ option EXCEPT
           !.voterIds = pushed,
           !.existingVotes = IF option.existingVotes < realVoterCount
                             THEN realVoterCount ELSE option.existingVotes ]

\* "Add vote if not already voted for this option", with the existingVotes raise.
AddNamedVote(option, uid) ==
    IF ~Includes(option.voterIds, uid)
    THEN LET pushed == Push(option.voterIds, uid)
             realVoterCount == Length(Positives(pushed))
         IN [ option EXCEPT
                !.voterIds = pushed,
                !.existingVotes = IF option.existingVotes < realVoterCount
                                  THEN realVoterCount ELSE option.existingVotes ]
    ELSE option

\* RecordVotes with existingVotes raised by one for every index of the event,
\* whether or not the user was in the option.
RECURSIVE RecordVotesCounting(_, _, _, _)
RecordVotesCounting(options, option_ids, uid, isMultipleChoice) ==
    IF option_ids = <<>> THEN options
    ELSE LET optionIndex == Head(option_ids)
             cleared == IF ~isMultipleChoice THEN RemoveUser(options, uid) ELSE options
             next == IF optionIndex >= 0 /\ optionIndex < NumOptions
                     THEN [ cleared EXCEPT ![optionIndex] =
                              [ AddNamedVote(cleared[optionIndex], uid) EXCEPT
                                  !.existingVotes = cleared[optionIndex].existingVotes + 1 ] ]
                     ELSE options
         IN RecordVotesCounting(next, Tail(option_ids), uid, isMultipleChoice)

\* for (const optionIndex of option_ids) { ... }
RECURSIVE RecordVotes(_, _, _, _)
RecordVotes(options, option_ids, uid, isMultipleChoice) ==
    IF option_ids = <<>> THEN options
    ELSE LET optionIndex == Head(option_ids)
             cleared == IF ~isMultipleChoice THEN RemoveUser(options, uid) ELSE options
             next == IF optionIndex >= 0 /\ optionIndex < NumOptions
                     THEN [ cleared EXCEPT ![optionIndex] = AddNamedVote(cleared[optionIndex], uid) ]
                     ELSE options
         IN RecordVotes(next, Tail(option_ids), uid, isMultipleChoice)

\* Retraction of one option: the user's id removed; existingVotes adjusted
\* when the user had voted for it.
RetractOption(option, uid) ==
    LET hadVote == Includes(option.voterIds, uid)
        kept == Without(option.voterIds, uid)
        realVoterCount == Length(Positives(kept))
    IN [ option EXCEPT
           !.voterIds = kept,
           !.existingVotes = IF hadVote /\ option.existingVotes > realVoterCount
                             THEN realVoterCount ELSE option.existingVotes ]

\* findLastIndex in place of findIndex: the last mention that matches.
MentionIndexLast(mentions, user) ==
    LET hits == { k \in 1 .. Len(mentions) :
                    \/ mentions[k].userId = user.id
                    \/ (mentions[k].username # Null /\ mentions[k].username = user.username) }
    IN IF hits = {} THEN 0 ELSE CHOOSE k \in hits : \A j \in hits : k >= j

\* poll.mentions.findIndex(...): 0 stands for -1 (not found).
MentionIndex(mentions, user) ==
    LET hits == { k \in 1 .. Len(mentions) :
                    \/ mentions[k].userId = user.id
                    \/ (mentions[k].username # Null /\ mentions[k].username = user.username) }
    IN IF hits = {} THEN 0 ELSE CHOOSE k \in hits : \A j \in hits : k <= j

\* UpdateMentions with the assignment to voted left out.
UpdateMentionsNoVoted(mentions, user, option_ids) ==
    LET mentionIndex == MentionIndex(mentions, user)
    IN IF mentionIndex = 0 THEN mentions
       ELSE LET m == mentions[mentionIndex]
                filled == IF m.userId = NullId
                          THEN [ m EXCEPT !.userId = user.id,
                                          !.firstName = user.first_name,
                                          !.lastName = user.last_name ]
                          ELSE m
            IN [ mentions EXCEPT ![mentionIndex] = filled ]

\* "Update mention status if user is mentioned"
UpdateMentions(mentions, user, option_ids) ==
    LET mentionIndex == MentionIndex(mentions, user)
    IN IF mentionIndex = 0 THEN mentions
       ELSE LET m == mentions[mentionIndex]
                filled == IF m.userId = NullId
                          THEN [ m EXCEPT !.userId = user.id,
                                          !.firstName = user.first_name,
                                          !.lastName = user.last_name ]
                          ELSE m
            IN [ mentions EXCEPT ![mentionIndex] = [ filled EXCEPT !.voted = Len(option_ids) > 0 ] ]

\* OnPollAnswer with the user's earlier votes removed on every poll, as on a
\* single-choice one.
OnPollAnswerClearing(poll, user, option_ids) ==
    LET options == IF Len(option_ids) > 0
                   THEN RecordVotes(poll.options, option_ids, user.id, FALSE)
                   ELSE [ i \in DOMAIN poll.options |-> RetractOption(poll.options[i], user.id) ]
    IN [ poll EXCEPT
           !.options = options,
           !.mentions = UpdateMentions(poll.mentions, user, option_ids),
           !.total_voter_count = RecomputeTotal(options) ]

\* The document the poll_answer handler saves (the handler returns before
\* this when the poll is closed).
OnPollAnswer(poll, user, option_ids) ==
    LET options == IF Len(option_ids) > 0
                   THEN RecordVotes(poll.options, option_ids, user.id, poll.isMultipleChoice)
                   ELSE [ i \in DOMAIN poll.options |-> RetractOption(poll.options[i], user.id) ]
    IN [ poll EXCEPT
           !.options = options,
           !.mentions = UpdateMentions(poll.mentions, user, option_ids),
           !.total_voter_count = RecomputeTotal(options) ]

\* ------------------------------------------------- PollSchema.methods
\* addVote past its two early returns (closed poll, index out of range).
AddVote(poll, optionIndex, userId) ==
    LET cleared == IF ~poll.isMultipleChoice THEN RemoveUser(poll.options, userId)
                   ELSE poll.options
        voted == IF ~Includes(cleared[optionIndex].voterIds, userId)
                 THEN [ cleared EXCEPT ![optionIndex].voterIds = Push(@, userId) ]
                 ELSE cleared
        hits == { k \in 1 .. Len(poll.mentions) : poll.mentions[k].userId = userId }
        mentionIndex == IF hits = {} THEN 0 ELSE CHOOSE k \in hits : \A j \in hits : k <= j
    IN [ poll EXCEPT
           !.options = voted,
           !.mentions = IF mentionIndex = 0 THEN poll.mentions
                        ELSE [ poll.mentions EXCEPT ![mentionIndex].voted = TRUE ] ]

\* close()
ClosePoll(poll) == [ poll EXCEPT !.isClosed = TRUE ]

\* --------------------------------------------------------------- inputs
\* The user object of a poll_answer event.
UserOf(u) ==
    [ id |-> u, username |-> UserName(u), first_name |-> FirstName(u), last_name |-> LastName(u) ]

\* option_ids of a poll_answer event: indices, NumOptions being out of range.
RECURSIVE SeqsUpTo(_, _)
SeqsUpTo(S, n) ==
    IF n = 0 THEN { <<>> }
    ELSE LET shorter == SeqsUpTo(S, n - 1)
         IN shorter \cup { Append(q, x) : q \in shorter, x \in S }
OptionIdSeqs == SeqsUpTo(0 .. NumOptions, MaxSel)


RECURSIVE SumOf(_, _)
SumOf(f, S) ==
    IF S = {} THEN 0
    ELSE LET i == CHOOSE x \in S : TRUE IN f[i] + SumOf(f, S \ {i})

MaxOfFn(f) == CHOOSE m \in { f[i] : i \in DOMAIN f } : \A i \in DOMAIN f : f[i] <= m

\* Poll objects of the platform: per-option voter_count, and as
\* total_voter_count the number of voters: the sum of the counts when each
\* voter picks one option, and anything from the largest count up to that sum
\* when a voter may pick several.
SnapshotsUpTo(maxCount, multi) ==
    { snap \in [ total_voter_count : 0 .. (maxCount * NumOptions),
                 options : [ OptionIdx -> 0 .. maxCount ] ] :
        /\ snap.total_voter_count <= SumOf(snap.options, OptionIdx)
        /\ snap.total_voter_count >= (IF multi THEN MaxOfFn(snap.options)
                                      ELSE SumOf(snap.options, OptionIdx)) }

PlatformSnapshots(multi) == SnapshotsUpTo(MaxCount, multi)
AggSnapshots(multi) == SnapshotsUpTo(AggMaxCount, multi)

\* The model's cap on negative ids per option.
WithinCap(poll, cap) ==
    \A i \in OptionIdx : Length(Negatives(poll.options[i].voterIds)) <= cap

\* ------------------------------------------------------------------ state
\* extractMentions for a message without entities: if (!entities) return []
NoMentions == << >>

\* new Poll({... options: options.map(text => ({ text, voterIds: [] })) ...}):
\* isClosed, isTracked, total_voter_count and existingVotes take the schema's
\* defaults.
NewPoll(mentions, multi) ==
    [ options |-> [ i \in OptionIdx |->
                     [ text |-> <<"option", i>>, voterIds |-> EmptyArray, existingVotes |-> 0 ] ],
      mentions |-> mentions,
      isClosed |-> FALSE,
      isTracked |-> FALSE,
      isMultipleChoice |-> multi,
      total_voter_count |-> 0 ]

\* originalPollId of a document that was saved without one.
Missing == << >>

\* The lookup that went without a poll.
NotFound == 0

\* The scheduler before its first run, with no tracked poll to go through.
NoRun == [ queue |-> << >>, selected |-> << >>, batch |-> << >>, done |-> << >>, examined |-> {} ]

\* The specifications that follow one document keep the collection empty: the
\* document is db, neither a lookup nor the scheduler's batch runs, and how
\* the handlers end for their callers is not followed.
\* No placeholder allocated: existingVotes at the schema's default, and 0 for
\* the lowest negative id of an option that holds none.
NoExtent == [ i \in OptionIdx |-> [ existingVotes |-> 0, lowest |-> 0 ] ]

NoCollection ==
    /\ polls = << >>
    /\ now = 0
    /\ lastLookup = [ poll_id |-> Missing, poll |-> NotFound ]
    /\ sched = NoRun
    /\ result = "none"
    /\ extent = NoExtent

\* isMultipleChoice is written once, when the poll is created, and the
\* handlers branch on it: both kinds of poll are followed.
Init ==
    /\ db \in { NewPoll(NoMentions, multi) : multi \in BOOLEAN }
    /\ inflight = {}
    /\ retired = [ i \in OptionIdx |-> {} ]
    /\ namedSaved = {}
    /\ truth = <<>>
    /\ pending = <<>>
    /\ maxTrue = <<>>
    /\ NoCollection

\* Poll.find({ isTracked: true, isClosed: false }): a tracked open poll.
Tracked == db.isTracked /\ ~db.isClosed

\* ------------------------------------------ operations on the document
\* The track command of the specification: Open(tracked=false) -> Open(tracked=true).
Track ==
    /\ ~db.isTracked /\ ~db.isClosed
    /\ db' = [ db EXCEPT !.isTracked = TRUE ]

\* bot.on('poll_answer') for one event, from findOne to save.
PollAnswer(u, ids) ==
    db' = IF db.isClosed THEN db ELSE OnPollAnswer(db, UserOf(u), ids)

\* bot.on('poll') for one pushed snapshot, from findOne to save.
PollUpdate(snap) ==
    db' = IF db.isClosed THEN db ELSE OnPoll(db, snap)

\* /refreshpoll replying to the poll message, from findOne to save.
RefreshCommand(snap) ==
    db' = IF ~db.isTracked THEN db ELSE RefreshPoll(db, snap)

\* One poll of one updateTrackedPolls run whose message was fetched.
SchedulerUpdate(snap) ==
    /\ db.isTracked /\ ~db.isClosed
    /\ db' = RefreshTrackedPoll(db, snap)

\* poll.addVote(optionIndex, userId)
AddVoteMethod(i, u) ==
    db' = IF db.isClosed \/ i < 0 \/ i >= NumOptions THEN db ELSE AddVote(db, i, u)

\* poll.close()
Close == db' = ClosePoll(db)

\* ------------------------------------------------ Spec: handlers run one
\* at a time, each from its load to its save.
LedgerOnly ==
    /\ WithinCap(db', MaxPlaceholders)
    /\ UNCHANGED <<inflight, retired, namedSaved, truth, pending, maxTrue, polls, now, lastLookup, sched, result, extent>>

TrackPoll == Track /\ LedgerOnly
PollAnswerEvent == \E u \in Users, ids \in OptionIdSeqs : PollAnswer(u, ids) /\ LedgerOnly
PollEvent == \E snap \in PlatformSnapshots(db.isMultipleChoice) : PollUpdate(snap) /\ LedgerOnly
RefreshPollCommand == \E snap \in PlatformSnapshots(db.isMultipleChoice) : RefreshCommand(snap) /\ LedgerOnly
SchedulerRefresh == \E snap \in PlatformSnapshots(db.isMultipleChoice) : SchedulerUpdate(snap) /\ LedgerOnly
AddVoteCall == \E u \in Users, i \in 0 .. NumOptions : AddVoteMethod(i, u) /\ LedgerOnly
CloseCall == Close /\ LedgerOnly

Next ==
    \/ TrackPoll
    \/ PollAnswerEvent
    \/ PollEvent
    \/ RefreshPollCommand
    \/ SchedulerRefresh
    \/ AddVoteCall
    \/ CloseCall

Spec == Init /\ [][Next]_vars

\* ------------------------------------- SpecAggregate: aggregate paths only
\* The three aggregate paths acting on a poll, with the negative ids each
\* step removes from an option remembered in `retired`.
Retire == retired' = [ i \in OptionIdx |-> retired[i] \cup
            (DOMAIN Negatives(db.options[i].voterIds) \ DOMAIN Negatives(db'.options[i].voterIds)) ]
AggregateOnly ==
    /\ WithinCap(db', AggMaxPlaceholders)
    /\ UNCHANGED <<inflight, namedSaved, truth, pending, maxTrue, polls, now, lastLookup, sched, result, extent>>

AggTrack == Track /\ Retire /\ AggregateOnly
AggPollEvent ==
    \E snap \in AggSnapshots(db.isMultipleChoice) : PollUpdate(snap) /\ Retire /\ AggregateOnly
AggRefreshPollCommand ==
    \E snap \in AggSnapshots(db.isMultipleChoice) : RefreshCommand(snap) /\ Retire /\ AggregateOnly
AggSchedulerRefresh ==
    \E snap \in AggSnapshots(db.isMultipleChoice) : SchedulerUpdate(snap) /\ Retire /\ AggregateOnly

NextAggregate ==
    \/ AggTrack
    \/ AggPollEvent
    \/ AggRefreshPollCommand
    \/ AggSchedulerRefresh

SpecAggregate == Init /\ [][NextAggregate]_vars

\* ------------------------------- SpecConcurrent: handlers interleaved
\* The poll_answer handler, the poll handler and the scheduler each read the
\* document (findOne / find), change their own copy and write it back with
\* save(); another handler may run between the read and the write. A save
\* replaces the stored document by the saver's copy.
\* inflight holds the copy of a handler that has read and not yet saved; the
\* other handlers run from read to save in one step meanwhile, which gives
\* every interleaving of two handlers.
NoneLoading == inflight = {}

\* Pairs <<u, k>> for the options k that hold u in `doc`.
VotesOf(u, doc) == { <<u, k>> : k \in { i \in OptionIdx : Includes(doc.options[i].voterIds, u) } }
VotesOfUser(u) == { <<u, k>> : k \in OptionIdx }

ConcurrentOnly ==
    /\ WithinCap(db', MaxPlaceholders)
    /\ \A w \in inflight' : WithinCap(w.doc, MaxPlaceholders)
    /\ UNCHANGED <<retired, truth, pending, maxTrue, polls, now, lastLookup, sched, result, extent>>

ConcTrack == Track /\ UNCHANGED <<inflight, namedSaved>> /\ ConcurrentOnly

\* poll.close() while another handler may hold a loaded copy.
ConcClose == Close /\ UNCHANGED <<inflight, namedSaved>> /\ ConcurrentOnly

\* poll_answer from findOne to save() with no other handler in between.
ConcPollAnswer ==
    \E u \in Users, ids \in OptionIdSeqs :
        /\ PollAnswer(u, ids)
        /\ namedSaved' = (namedSaved \ VotesOfUser(u)) \cup VotesOf(u, db')
        /\ UNCHANGED inflight
        /\ ConcurrentOnly

\* poll from findOne to save() with no other handler in between.
ConcPoll ==
    \E snap \in PlatformSnapshots(db.isMultipleChoice) :
        /\ PollUpdate(snap)
        /\ UNCHANGED <<inflight, namedSaved>>
        /\ ConcurrentOnly

\* One pass of updateTrackedPolls with no other handler in between.
ConcSched ==
    \E snap \in PlatformSnapshots(db.isMultipleChoice) :
        /\ SchedulerUpdate(snap)
        /\ UNCHANGED <<inflight, namedSaved>>
        /\ ConcurrentOnly

\* poll_answer: findOne, then the changes on the loaded copy.
AnswerLoad ==
    \E u \in Users, ids \in OptionIdSeqs :
        /\ NoneLoading
        /\ ~db.isClosed
        /\ inflight' = inflight \cup
              { [ by |-> "answer", user |-> u, doc |-> OnPollAnswer(db, UserOf(u), ids) ] }
        /\ namedSaved' = namedSaved \ VotesOfUser(u)
        /\ UNCHANGED db
        /\ ConcurrentOnly

\* poll_answer: await poll.save()
AnswerSave ==
    \E w \in inflight :
        /\ w.by = "answer"
        /\ db' = w.doc
        /\ inflight' = inflight \ {w}
        /\ namedSaved' = (namedSaved \ VotesOfUser(w.user)) \cup VotesOf(w.user, w.doc)
        /\ ConcurrentOnly

\* poll: findOne, then the changes on the loaded copy.
PollLoad ==
    \E snap \in PlatformSnapshots(db.isMultipleChoice) :
        /\ NoneLoading
        /\ ~db.isClosed
        /\ inflight' = inflight \cup { [ by |-> "poll", user |-> NullId, doc |-> OnPoll(db, snap) ] }
        /\ UNCHANGED <<db, namedSaved>>
        /\ ConcurrentOnly

\* poll: await dbPoll.save()
PollSave ==
    \E w \in inflight :
        /\ w.by = "poll"
        /\ db' = w.doc
        /\ inflight' = inflight \ {w}
        /\ UNCHANGED namedSaved
        /\ ConcurrentOnly

\* updateTrackedPolls: Poll.find, the fetch, then the changes on the loaded copy.
SchedLoad ==
    \E snap \in PlatformSnapshots(db.isMultipleChoice) :
        /\ NoneLoading
        /\ db.isTracked /\ ~db.isClosed
        /\ SchedChanged(db, snap)
        /\ inflight' = inflight \cup
              { [ by |-> "sched", user |-> NullId, doc |-> UpdateTrackedPoll(db, snap) ] }
        /\ UNCHANGED <<db, namedSaved>>
        /\ ConcurrentOnly

\* SchedSave with a save that is rejected when the persisted document holds a
\* placeholder the loaded copy lacks.
SchedSaveChecked ==
    \E w \in inflight :
        /\ w.by = "sched"
        /\ db' = IF \E i \in OptionIdx :
                      \E id \in DOMAIN Negatives(db.options[i].voterIds) :
                          ~Includes(w.doc.options[i].voterIds, id)
                 THEN db ELSE w.doc
        /\ inflight' = inflight \ {w}
        /\ UNCHANGED namedSaved
        /\ ConcurrentOnly

\* updateTrackedPolls: await poll.save()
SchedSave ==
    \E w \in inflight :
        /\ w.by = "sched"
        /\ db' = w.doc
        /\ inflight' = inflight \ {w}
        /\ UNCHANGED namedSaved
        /\ ConcurrentOnly

\* The poll as every creation site stores it: isMultipleChoice: false.
InitConcurrent ==
    /\ db = NewPoll(NoMentions, FALSE)
    /\ inflight = {}
    /\ retired = [ i \in OptionIdx |-> {} ]
    /\ namedSaved = {}
    /\ truth = <<>>
    /\ pending = <<>>
    /\ maxTrue = <<>>
    /\ NoCollection

NextConcurrent ==
    \/ ConcTrack
    \/ ConcClose
    \/ ConcPollAnswer
    \/ ConcPoll
    \/ ConcSched
    \/ AnswerLoad
    \/ AnswerSave
    \/ PollLoad
    \/ PollSave
    \/ SchedLoad
    \/ SchedSave

SpecConcurrent == InitConcurrent /\ [][NextConcurrent]_vars

\* ------------------------------------ SpecPlatform: the platform's votes
\* The platform holds the true choice of every user (truth[u] is the user's
\* option_ids: empty, or one option of the single-choice poll). Each vote,
\* vote change or retraction sends one poll_answer update and one poll update
\* carrying the true counts; the two are handled one after the other, in
\* either order. maxTrue[i] is the largest true count option i has had.
TrueCount(t, i) == Cardinality({ u \in Users : t[u] = <<i>> })

TrueSnapshot(t) ==
    [ total_voter_count |-> Cardinality({ u \in Users : t[u] # <<>> }),
      options |-> [ i \in OptionIdx |-> TrueCount(t, i) ] ]

Choices == { <<>> } \cup { <<i>> : i \in OptionIdx }

InitPlatform ==
    /\ db = NewPoll(NoMentions, FALSE)
    /\ inflight = {}
    /\ retired = [ i \in OptionIdx |-> {} ]
    /\ namedSaved = {}
    /\ truth = [ u \in Users |-> <<>> ]
    /\ pending = {}
    /\ maxTrue = [ i \in OptionIdx |-> 0 ]
    /\ NoCollection

PlatTrack ==
    /\ Track
    /\ UNCHANGED <<inflight, retired, namedSaved, truth, pending, maxTrue, polls, now, lastLookup, sched, result, extent>>

\* A user votes, changes the vote or retracts it on the platform.
PlatVote ==
    \E u \in Users, c \in Choices :
        /\ Tracked
        /\ pending = {}
        /\ c # truth[u]
        /\ truth' = [ truth EXCEPT ![u] = c ]
        /\ maxTrue' = [ i \in OptionIdx |->
                          IF TrueCount(truth', i) > maxTrue[i] THEN TrueCount(truth', i) ELSE maxTrue[i] ]
        /\ pending' = { [ kind |-> "poll_answer", user |-> u, option_ids |-> c,
                          snap |-> TrueSnapshot(truth') ],
                        [ kind |-> "poll", user |-> u, option_ids |-> c,
                          snap |-> TrueSnapshot(truth') ] }
        /\ UNCHANGED <<db, inflight, retired, namedSaved, polls, now, lastLookup, sched, result, extent>>

\* bot.on('poll_answer') handles the vote's poll_answer update.
PlatDeliverAnswer ==
    \E e \in pending :
        /\ e.kind = "poll_answer"
        /\ PollAnswer(e.user, e.option_ids)
        /\ WithinCap(db', MaxPlaceholders)
        /\ pending' = pending \ {e}
        /\ UNCHANGED <<inflight, retired, namedSaved, truth, maxTrue, polls, now, lastLookup, sched, result, extent>>

\* bot.on('poll') handles the vote's poll update.
PlatDeliverPoll ==
    \E e \in pending :
        /\ e.kind = "poll"
        /\ PollUpdate(e.snap)
        /\ WithinCap(db', MaxPlaceholders)
        /\ pending' = pending \ {e}
        /\ UNCHANGED <<inflight, retired, namedSaved, truth, maxTrue, polls, now, lastLookup, sched, result, extent>>

\* updateTrackedPolls fetches the poll while no update is on its way: the
\* snapshot carries the platform's present counts.
PlatSched ==
    /\ pending = {}
    /\ SchedulerUpdate(TrueSnapshot(truth))
    /\ WithinCap(db', MaxPlaceholders)
    /\ UNCHANGED <<inflight, retired, namedSaved, truth, pending, maxTrue, polls, now, lastLookup, sched, result, extent>>

NextPlatform ==
    \/ PlatTrack
    \/ PlatSched
    \/ PlatVote
    \/ PlatDeliverAnswer
    \/ PlatDeliverPoll

SpecPlatform == InitPlatform /\ [][NextPlatform]_vars

\* ---------------------------------- SpecRoster: the mention roster
\* The single-choice poll of /newpoll with the roster extractMentions builds
\* from the message's entities, and the named votes of its users.
RECURSIVE ExtractMentions(_, _)
\* extractMentions(entities, text, fromId); a "mention" entity carries the
\* username that text.substring(offset + 1, offset + length) cuts out.
ExtractMentions(entities, fromId) ==
    IF entities = <<>> THEN <<>>
    ELSE LET entity == Head(entities)
             rest == ExtractMentions(Tail(entities), fromId)
         IN IF entity.type = "mention"
            THEN << [ username |-> entity.username, userId |-> NullId,
                      firstName |-> Null, lastName |-> Null, voted |-> FALSE ] >> \o rest
            ELSE IF entity.type = "text_mention" /\ entity.user.id # NullId
            THEN << [ username |-> entity.user.username, userId |-> entity.user.id,
                      firstName |-> entity.user.first_name, lastName |-> entity.user.last_name,
                      voted |-> (entity.user.id = fromId) ] >> \o rest
            ELSE rest

\* A user the message mentions and who does not vote.
Bystander == UserIdBase + MaxUsers + 1

\* Entities of the /newpoll message: @username, a text mention of a user with
\* or without a username, @username of the bystander, and an entity that is
\* no mention.
Entities ==
    { [ type |-> "mention", username |-> UserName(u), user |-> UserOf(u) ] : u \in Users }
    \cup { [ type |-> "text_mention", username |-> Null, user |-> UserOf(u) ] : u \in Users }
    \cup { [ type |-> "text_mention", username |-> Null,
             user |-> [ UserOf(u) EXCEPT !.username = Null ] ] : u \in Users }
    \cup { [ type |-> "mention", username |-> UserName(Bystander), user |-> UserOf(Bystander) ] }
    \cup { [ type |-> "bold", username |-> Null, user |-> UserOf(NullId) ] }

InitRoster ==
    /\ db \in { NewPoll(ExtractMentions(entities, fromId), FALSE) :
                  entities \in SeqsUpTo(Entities, MaxMentions), fromId \in Users }
    /\ inflight = {}
    /\ retired = [ i \in OptionIdx |-> {} ]
    /\ namedSaved = {}
    /\ truth = <<>>
    /\ pending = <<>>
    /\ maxTrue = <<>>
    /\ NoCollection

RosterPollAnswer == \E u \in Users, ids \in OptionIdSeqs : PollAnswer(u, ids) /\ LedgerOnly

RosterAddVote == \E u \in Users, i \in 0 .. NumOptions : AddVoteMethod(i, u) /\ LedgerOnly

NextRoster ==
    \/ RosterPollAnswer
    \/ RosterAddVote

SpecRoster == InitRoster /\ [][NextRoster]_vars

\* ------------------------------------- SpecNamed: voters beside each other
\* Several users voting by name on the poll of Init, with placeholders from
\* pushed snapshots beside their ids.
NamedUsers == (UserIdBase + 1) .. (UserIdBase + MaxNamedUsers)

NamedTrack == Track /\ LedgerOnly
NamedPollAnswer == \E u \in NamedUsers, ids \in OptionIdSeqs : PollAnswer(u, ids) /\ LedgerOnly
NamedPollEvent ==
    \E snap \in PlatformSnapshots(db.isMultipleChoice) : PollUpdate(snap) /\ LedgerOnly

NextNamed ==
    \/ NamedTrack
    \/ NamedPollAnswer
    \/ NamedPollEvent

SpecNamed == Init /\ [][NextNamed]_vars

\* ---------------------------------- SpecResolver: the poll a vote is for
\* Poll ids are strings of digits, here sequences of digits.
Stem(d) == [ i \in 1 .. PrefixLen |-> d ]

\* Ids the platform gave to polls of this bot: two that share their first
\* PrefixLen characters, one that holds those characters from its second
\* character on, and one that shares nothing with them.
StoredIds ==
    { Stem(1) \o <<4>>, Stem(1) \o <<5>>, <<3>> \o Stem(1), Stem(2) \o <<4>> }

\* poll_id of a poll_answer update: a stored id, or an id no poll was
\* created with ("sometimes Telegram sends shortened or modified poll_id
\* values"), the last one sharing no PrefixLen characters with a stored id.
InboundIds ==
    StoredIds \cup { Stem(1) \o <<6>>, Stem(2) \o <<6>>, Stem(7) \o <<6>> }

\* option_ids of the votes handed to the resolver: a vote and a retraction.
ResolverOptionIds == { <<0>>, << >> }

\* poll_id.substring(0, 10)
Substring(s, n) == SubSeq(s, 1, IF Len(s) < n THEN Len(s) ELSE n)

\* { field: { $regex: pattern, $options: 'i' } }: the pattern is not
\* anchored, so it matches wherever it occurs in the field; a missing field
\* matches nothing. Digits have no case.
RegexMatches(field, pattern) ==
    /\ field # Missing
    /\ \E k \in 0 .. (Len(field) - Len(pattern)) :
           SubSeq(field, k + 1, k + Len(pattern)) = pattern

\* Poll.findOne({ pollId: poll_id })
ByPollId(docs, poll_id) == { k \in DOMAIN docs : docs[k].pollId = poll_id }

\* Poll.findOne({ originalPollId: poll_id })
ByOriginalPollId(docs, poll_id) == { k \in DOMAIN docs : docs[k].originalPollId = poll_id }

\* Poll.find({ isClosed: false })
OpenPolls(docs) == { k \in DOMAIN docs : ~docs[k].isClosed }

\* Poll.find({ isClosed: false, $or: [{ pollId: { $regex } }, { originalPollId: { $regex } }] })
PrefixMatches(docs, poll_id) ==
    { k \in OpenPolls(docs) :
        \/ RegexMatches(docs[k].pollId, Substring(poll_id, PrefixLen))
        \/ RegexMatches(docs[k].originalPollId, Substring(poll_id, PrefixLen)) }

\* Every open poll is scanned whatever the prefix search found.
AllActivePollsScanAll(docs, poll_id) == OpenPolls(docs)

\* allActivePolls after "If that fails, get all active polls".
AllActivePolls(docs, poll_id) ==
    IF PrefixMatches(docs, poll_id) = {} THEN OpenPolls(docs) ELSE PrefixMatches(docs, poll_id)

\* sort((a, b) => b.updatedAt - a.updatedAt)[0] over the polls of found.
MostRecent(docs, found) ==
    { k \in found : \A j \in found : docs[j].updatedAt <= docs[k].updatedAt }

\* The polls the lookup of the poll_answer handler can end with; no poll
\* when it returns without one. The catch branches run only when the store
\* throws and are not followed.
Resolve(docs, poll_id) ==
    IF ByPollId(docs, poll_id) # {} THEN ByPollId(docs, poll_id)
    ELSE IF ByOriginalPollId(docs, poll_id) # {} THEN ByOriginalPollId(docs, poll_id)
    ELSE IF Cardinality(AllActivePolls(docs, poll_id)) = 1 THEN AllActivePolls(docs, poll_id)
    ELSE IF Cardinality(AllActivePolls(docs, poll_id)) > 1
         THEN MostRecent(docs, AllActivePolls(docs, poll_id))
    ELSE {}

\* The document /newpoll saves, with the fields the lookup reads.
StoredPoll(poll_id, time) ==
    [ pollId |-> poll_id,
      originalPollId |-> Missing,
      updatedAt |-> time,
      options |-> [ i \in OptionIdx |->
                     [ text |-> <<"option", i>>, voterIds |-> EmptyArray, existingVotes |-> 0 ] ],
      mentions |-> NoMentions,
      isClosed |-> FALSE,
      isTracked |-> FALSE,
      isMultipleChoice |-> FALSE,
      total_voter_count |-> 0 ]

IdsInUse == { polls[k].pollId : k \in DOMAIN polls }
               \cup { polls[k].originalPollId : k \in DOMAIN polls }

ResolverOnly == UNCHANGED <<db, inflight, retired, namedSaved, truth, pending, maxTrue, sched, result, extent>>

\* /newpoll: the platform gives each poll it sends an id of its own.
ResolverNewPoll ==
    \E poll_id \in StoredIds \ IdsInUse :
        /\ Len(polls) < MaxPolls
        /\ now < MaxTime
        /\ now' = now + 1
        /\ polls' = Append(polls, StoredPoll(poll_id, now'))
        /\ UNCHANGED lastLookup
        /\ ResolverOnly

\* The platform issues a new id for a poll and the old one is kept as its
\* alias.
ResolverRotateId ==
    \E k \in DOMAIN polls, poll_id \in StoredIds \ IdsInUse :
        /\ polls[k].originalPollId = Missing
        /\ now < MaxTime
        /\ now' = now + 1
        /\ polls' = [ polls EXCEPT ![k] = [ @ EXCEPT !.originalPollId = polls[k].pollId,
                                                     !.pollId = poll_id,
                                                     !.updatedAt = now' ] ]
        /\ UNCHANGED lastLookup
        /\ ResolverOnly

\* poll.close() and its save.
ResolverClose ==
    \E k \in DOMAIN polls :
        /\ ~polls[k].isClosed
        /\ now < MaxTime
        /\ now' = now + 1
        /\ polls' = [ polls EXCEPT ![k] = [ ClosePoll(@) EXCEPT !.updatedAt = now' ] ]
        /\ UNCHANGED lastLookup
        /\ ResolverOnly

\* bot.on('poll_answer') for one event, from the lookup to the save:
\* "poll.updatedAt = new Date()" goes with the vote.
ResolverAnswer(poll_id, u, ids) ==
    /\ \/ /\ Resolve(polls, poll_id) = {}
          /\ lastLookup' = [ poll_id |-> poll_id, poll |-> NotFound ]
          /\ UNCHANGED <<polls, now>>
       \/ \E k \in Resolve(polls, poll_id) :
              /\ lastLookup' = [ poll_id |-> poll_id, poll |-> k ]
              /\ IF polls[k].isClosed
                 THEN UNCHANGED <<polls, now>>
                 ELSE /\ now < MaxTime
                      /\ now' = now + 1
                      /\ polls' = [ polls EXCEPT ![k] =
                                      [ OnPollAnswer(@, UserOf(u), ids) EXCEPT !.updatedAt = now' ] ]
    /\ ResolverOnly

ResolverPollAnswer ==
    \E poll_id \in InboundIds, u \in Users, ids \in ResolverOptionIds :
        ResolverAnswer(poll_id, u, ids)

InitResolver ==
    /\ db = NewPoll(NoMentions, FALSE)
    /\ inflight = {}
    /\ retired = [ i \in OptionIdx |-> {} ]
    /\ namedSaved = {}
    /\ truth = <<>>
    /\ pending = <<>>
    /\ maxTrue = <<>>
    /\ NoCollection

NextResolver ==
    \/ ResolverNewPoll
    \/ ResolverRotateId
    \/ ResolverClose
    \/ ResolverPollAnswer

SpecResolver == InitResolver /\ [][NextResolver]_vars

\* ------------------------------- SpecScheduler: the batch of one run
\* The tracked open polls of the collection, known by their place in it.
SchedPolls == 1 .. MaxPolls

\* What one pass of the loop body ends with: updatedCount, unchangedCount,
\* skippedCount (the message could not be fetched or is no poll) and
\* errorCount (processing or save threw).
Outcomes == { "updated", "unchanged", "skipped", "error" }

\* .limit(n) of a sorted result.
Limit(queue, n) == SubSeq(queue, 1, IF Len(queue) < n THEN Len(queue) ELSE n)

\* The order by updatedAt once poll has been saved with updatedAt = new Date().
MoveToEnd(queue, poll) ==
    Append(SelectSeq(queue, LAMBDA q : q # poll), poll)

\* A pass that ends in a failure ends the whole run.
AfterPollAbort(batch, outcome) ==
    IF outcome \in { "skipped", "error" } THEN << >> ELSE Tail(batch)

\* for (const poll of trackedPolls) { try { ... continue ... } catch { errorCount++ } }:
\* whatever the pass ended with, the loop goes on with the next poll.
AfterPoll(batch, outcome) == Tail(batch)

SchedulerOnly ==
    UNCHANGED <<db, inflight, retired, namedSaved, truth, pending, maxTrue, polls, now, lastLookup, result, extent>>

\* Poll.find({ isTracked: true, isClosed: false }).sort({ updatedAt: 1 })
\* .limit(MAX_POLLS_TO_CHECK), when the timer fires and no run is under way.
TickStart ==
    /\ sched.batch = << >>
    /\ Len(sched.queue) > 0
    /\ sched' = [ sched EXCEPT !.selected = Limit(sched.queue, MAX_POLLS_TO_CHECK),
                               !.batch = Limit(sched.queue, MAX_POLLS_TO_CHECK),
                               !.done = << >> ]
    /\ SchedulerOnly

\* One pass of the loop body. Only a poll that was saved gets a new updatedAt.
ProcessPoll(outcome) ==
    /\ sched.batch # << >>
    /\ LET poll == Head(sched.batch)
       IN sched' = [ sched EXCEPT
                       !.queue = IF outcome = "updated" THEN MoveToEnd(@, poll) ELSE @,
                       !.batch = AfterPoll(@, outcome),
                       !.done = Append(@, [ poll |-> poll, outcome |-> outcome ]),
                       !.examined = @ \cup {poll} ]
    /\ SchedulerOnly

ProcessNext == \E outcome \in Outcomes : ProcessPoll(outcome)

InitScheduler ==
    /\ db = NewPoll(NoMentions, FALSE)
    /\ inflight = {}
    /\ retired = [ i \in OptionIdx |-> {} ]
    /\ namedSaved = {}
    /\ truth = <<>>
    /\ pending = <<>>
    /\ maxTrue = <<>>
    /\ polls = << >>
    /\ now = 0
    /\ lastLookup = [ poll_id |-> Missing, poll |-> NotFound ]
    /\ \E n \in SchedPolls : sched = [ NoRun EXCEPT !.queue = [ k \in 1 .. n |-> k ] ]
    /\ result = "none"
    /\ extent = NoExtent

NextScheduler ==
    \/ TickStart
    \/ ProcessNext

SpecScheduler == InitScheduler /\ [][NextScheduler]_vars

\* setInterval keeps firing and a run that started goes through its batch.
SpecSchedulerFair ==
    /\ InitScheduler
    /\ [][NextScheduler]_vars
    /\ WF_vars(TickStart)
    /\ WF_vars(ProcessNext)

\* ------------------------- SpecFaults: partial events and failing saves
\* What an update carries: the poll_answer / poll object, its poll id, the
\* user and option_ids. At most one of them is missing.
WellFormed ==
    [ has_data |-> TRUE, has_poll_id |-> TRUE, has_user |-> TRUE, has_option_ids |-> TRUE ]

Shapes ==
    { WellFormed } \cup { [ WellFormed EXCEPT ![f] = FALSE ] : f \in DOMAIN WellFormed }

\* bot.on('poll_answer') up to its save: the document it is about to save, or
\* the loaded one where it returns before. Without option_ids the test
\* "option_ids && option_ids.length > 0" fails and the retraction branch
\* runs; option_ids.length then throws where a mention of the user is found,
\* and the catch of the handler ends the call before the save.
HandlePollAnswer(poll, shape, u, ids) ==
    IF ~shape.has_data \/ ~shape.has_poll_id \/ ~shape.has_user THEN poll
    ELSE IF poll.isClosed THEN poll
    ELSE IF shape.has_option_ids THEN OnPollAnswer(poll, UserOf(u), ids)
    ELSE IF MentionIndex(poll.mentions, UserOf(u)) # 0 THEN poll
    ELSE OnPollAnswer(poll, UserOf(u), << >>)

\* The poll_answer handler gets to "await poll.save()".
AnswerReachesSave(poll, shape, u) ==
    /\ shape.has_data /\ shape.has_poll_id /\ shape.has_user
    /\ ~poll.isClosed
    /\ shape.has_option_ids \/ MentionIndex(poll.mentions, UserOf(u)) = 0

\* bot.on('poll') up to its save.
HandlePoll(dbPoll, shape, snap) ==
    IF ~shape.has_data \/ ~shape.has_poll_id THEN dbPoll
    ELSE IF dbPoll.isClosed THEN dbPoll
    ELSE OnPoll(dbPoll, snap)

\* The poll handler gets to "await dbPoll.save()".
PollReachesSave(dbPoll, shape) ==
    shape.has_data /\ shape.has_poll_id /\ ~dbPoll.isClosed

\* } catch (error) { logger.error(...) } of the handlers and of the loop body
\* of updateTrackedPolls: the call ends normally whether or not it threw.
Caught(threw) == "returned"

FaultsOnly ==
    /\ WithinCap(db', MaxPlaceholders)
    /\ UNCHANGED <<inflight, retired, namedSaved, truth, pending, maxTrue, polls, now, lastLookup, sched, extent>>

\* One poll_answer update; saveFails: poll.save() rejects.
AnswerCall(shape, u, ids, saveFails) ==
    /\ db' = IF saveFails THEN db ELSE HandlePollAnswer(db, shape, u, ids)
    /\ result' = Caught(saveFails /\ AnswerReachesSave(db, shape, u))

\* One poll update; saveFails: dbPoll.save() rejects.
PollCall(shape, snap, saveFails) ==
    /\ db' = IF saveFails THEN db ELSE HandlePoll(db, shape, snap)
    /\ result' = Caught(saveFails /\ PollReachesSave(db, shape))

\* One poll of an updateTrackedPolls run; saveFails: poll.save() rejects.
SchedCall(snap, saveFails) ==
    /\ Tracked
    /\ db' = IF saveFails THEN db ELSE RefreshTrackedPoll(db, snap)
    /\ result' = Caught(saveFails /\ SchedChanged(db, snap))

NextFaults ==
    \/ Track /\ UNCHANGED result /\ FaultsOnly
    \/ \E shape \in Shapes, u \in Users, ids \in OptionIdSeqs, saveFails \in BOOLEAN :
           AnswerCall(shape, u, ids, saveFails) /\ FaultsOnly
    \/ \E shape \in Shapes, snap \in PlatformSnapshots(db.isMultipleChoice), saveFails \in BOOLEAN :
           PollCall(shape, snap, saveFails) /\ FaultsOnly
    \/ \E snap \in PlatformSnapshots(db.isMultipleChoice), saveFails \in BOOLEAN :
           SchedCall(snap, saveFails) /\ FaultsOnly

SpecFaults == InitRoster /\ [][NextFaults]_vars

\* ------------------------- SpecAllocator: placeholder ids of large counts
\* The negative ids the aggregate paths put into option i are a run of
\* consecutive ids that ends at BaseId(i) - 1; extent[i] holds the run by its
\* lowest id, next to the option's existingVotes, so that voter counts of the
\* size of PlaceholderBase can be followed. The poll is tracked and open.
Counts ==
    { 1, 2, MaxSaneCount, MaxSaneCount + 1,
      PlaceholderBase - 1, PlaceholderBase, PlaceholderBase + 1 }

\* OnPollOption on the run of option i: the array handed to the allocator
\* has the negative minimum of the run, and Array.from({ length: newVotes },
\* (_, idx) => lastPlaceholderId - idx) ends at lastPlaceholderId - (newVotes - 1).
PollExtent(e, i, newVoterCount) ==
    IF newVoterCount > e.existingVotes
    THEN LET newVotes == newVoterCount - e.existingVotes
             voterIds == IF e.lowest < 0 THEN SetToBag({ e.lowest }) ELSE EmptyArray
             low == PollLastPlaceholderId(voterIds, i) - (newVotes - 1)
         IN [ existingVotes |-> newVoterCount,
              lowest |-> IF e.lowest < 0 /\ e.lowest < low THEN e.lowest ELSE low ]
    ELSE e

\* UpdateTrackedOption on the run of option i.
SchedExtent(e, i, newVoterCount) ==
    IF newVoterCount < 0 \/ newVoterCount > MaxSaneCount THEN e
    ELSE IF newVoterCount > e.existingVotes
    THEN LET newVotes == newVoterCount - e.existingVotes
             voterIds == IF e.lowest < 0 THEN SetToBag({ e.lowest }) ELSE EmptyArray
             low == SchedLowestExistingId(voterIds, i) - (newVotes - 1)
         IN [ existingVotes |-> newVoterCount,
              lowest |-> IF e.lowest < 0 /\ e.lowest < low THEN e.lowest ELSE low ]
    ELSE e

\* bot.on('poll'), and updateTrackedPolls past its test of the total, with a
\* snapshot whose voter_count of option i is c and whose other counts are
\* not above existingVotes.
NextAllocator ==
    \/ \E i \in OptionIdx, c \in Counts :
         /\ extent' = [ extent EXCEPT ![i] = PollExtent(@, i, c) ]
         /\ UNCHANGED <<db, inflight, retired, namedSaved, truth, pending, maxTrue, polls, now, lastLookup, sched, result>>
    \/ \E i \in OptionIdx, c \in Counts :
         /\ extent' = [ extent EXCEPT ![i] = SchedExtent(@, i, c) ]
         /\ UNCHANGED <<db, inflight, retired, namedSaved, truth, pending, maxTrue, polls, now, lastLookup, sched, result>>

SpecAllocator == InitConcurrent /\ [][NextAllocator]_vars

\* ----------------------------- SpecFetch: the fetch loop of one poll
\* One tracked poll, db, is the batch of every run. sched follows the loop
\* body for it: attempts and pollMessage as in the code, tried the fetch
\* methods used so far and whether each yielded a message, outcome how the
\* body ended. Whether a method yields is the platform's choice.
\* while (!pollMessage && attempts < TELEGRAM_MAX_RETRIES) without the
\* test of pollMessage.
FetchGoesOnBlind(pollMessage, attempts) == attempts < TELEGRAM_MAX_RETRIES

\* while (!pollMessage && attempts < TELEGRAM_MAX_RETRIES)
FetchGoesOn(pollMessage, attempts) ==
    pollMessage = "none" /\ attempts < TELEGRAM_MAX_RETRIES

InitFetch ==
    /\ db = [ NewPoll(NoMentions, FALSE) EXCEPT !.isTracked = TRUE ]
    /\ inflight = {}
    /\ retired = [ i \in OptionIdx |-> {} ]
    /\ namedSaved = {}
    /\ truth = <<>>
    /\ pending = <<>>
    /\ maxTrue = <<>>
    /\ polls = << >>
    /\ now = 0
    /\ lastLookup = [ poll_id |-> Missing, poll |-> NotFound ]
    /\ sched = [ fetching |-> FALSE, attempts |-> 0, pollMessage |-> "none",
                 tried |-> << >>, outcome |-> "none" ]
    /\ result = "none"
    /\ extent = NoExtent

NextFetch ==
    \* for (const poll of trackedPolls): let pollMessage = null; let attempts = 0
    \/ /\ ~sched.fetching
       /\ sched' = [ fetching |-> TRUE, attempts |-> 0, pollMessage |-> "none",
                     tried |-> << >>, outcome |-> "none" ]
       /\ UNCHANGED <<db, inflight, retired, namedSaved, truth, pending, maxTrue, polls, now, lastLookup, result, extent>>
    \* attempts++; switch (attempts): one fetch method, which yields or fails
    \/ /\ sched.fetching
       /\ FetchGoesOn(sched.pollMessage, sched.attempts)
       /\ \E yields \in BOOLEAN :
            LET attempts == sched.attempts + 1
                method == CASE attempts = 1 -> "getMessage"
                            [] attempts = 2 -> "forwardMessage"
                            [] attempts = 3 -> "getPoll"
                            [] OTHER -> "sendMessage"
            IN sched' = [ sched EXCEPT
                            !.attempts = attempts,
                            !.pollMessage = IF yields THEN "message" ELSE "none",
                            !.tried = Append(@, [ method |-> method, yielded |-> yields ]) ]
       /\ UNCHANGED <<db, inflight, retired, namedSaved, truth, pending, maxTrue, polls, now, lastLookup, result, extent>>
    \* if (!pollMessage) { skippedCount++; continue; }
    \/ /\ sched.fetching
       /\ ~FetchGoesOn(sched.pollMessage, sched.attempts)
       /\ sched.pollMessage = "none"
       /\ sched' = [ sched EXCEPT !.fetching = FALSE, !.outcome = "skipped" ]
       /\ UNCHANGED <<db, inflight, retired, namedSaved, truth, pending, maxTrue, polls, now, lastLookup, result, extent>>
    \* the rest of the body on the poll of the fetched message
    \/ /\ sched.fetching
       /\ ~FetchGoesOn(sched.pollMessage, sched.attempts)
       /\ sched.pollMessage = "message"
       /\ \E snap \in PlatformSnapshots(db.isMultipleChoice) : SchedulerUpdate(snap)
       /\ WithinCap(db', MaxPlaceholders)
       /\ sched' = [ sched EXCEPT !.fetching = FALSE,
                                  !.outcome = IF db' # db THEN "updated" ELSE "unchanged" ]
       /\ UNCHANGED <<inflight, retired, namedSaved, truth, pending, maxTrue, polls, now, lastLookup, result, extent>>

SpecFetch == InitFetch /\ [][NextFetch]_vars

\* ------------------------------ SpecTimer: the timers of the service
\* sched follows the module's timers: pollingInterval is 0 for null or the
\* number of the setupPollingService call that armed the interval, timeouts
\* the calls whose 5 second timer has not fired yet, running the number of
\* updateTrackedPolls runs that have started and not returned, stopped
\* whether stopPollingService returned after the last setupPollingService.
InitTimer ==
    /\ db = NewPoll(NoMentions, FALSE)
    /\ inflight = {}
    /\ retired = [ i \in OptionIdx |-> {} ]
    /\ namedSaved = {}
    /\ truth = <<>>
    /\ pending = <<>>
    /\ maxTrue = <<>>
    /\ polls = << >>
    /\ now = 0
    /\ lastLookup = [ poll_id |-> Missing, poll |-> NotFound ]
    /\ sched = [ setups |-> 0, pollingInterval |-> 0, timeouts |-> {},
                 running |-> 0, stopped |-> FALSE ]
    /\ result = "none"
    /\ extent = NoExtent

NextTimer ==
    \* setupPollingService: clearInterval, setInterval, setTimeout
    \/ /\ sched.setups < MaxSetups
       /\ sched' = [ sched EXCEPT !.setups = @ + 1,
                                  !.pollingInterval = sched.setups + 1,
                                  !.timeouts = @ \cup { sched.setups + 1 },
                                  !.stopped = FALSE ]
       /\ UNCHANGED <<db, inflight, retired, namedSaved, truth, pending, maxTrue, polls, now, lastLookup, result, extent>>
    \* stopPollingService: clearInterval, pollingInterval = null
    \/ /\ sched' = [ sched EXCEPT !.pollingInterval = 0, !.stopped = TRUE ]
       /\ UNCHANGED <<db, inflight, retired, namedSaved, truth, pending, maxTrue, polls, now, lastLookup, result, extent>>
    \* the interval fires: its callback calls updateTrackedPolls
    \/ /\ sched.pollingInterval # 0
       /\ sched.running < MaxRuns
       /\ sched' = [ sched EXCEPT !.running = @ + 1 ]
       /\ UNCHANGED <<db, inflight, retired, namedSaved, truth, pending, maxTrue, polls, now, lastLookup, result, extent>>
    \* a 5 second timer fires: its callback calls updateTrackedPolls
    \/ /\ sched.running < MaxRuns
       /\ \E t \in sched.timeouts :
            sched' = [ sched EXCEPT !.timeouts = @ \ {t}, !.running = @ + 1 ]
       /\ UNCHANGED <<db, inflight, retired, namedSaved, truth, pending, maxTrue, polls, now, lastLookup, result, extent>>
    \* a run of updateTrackedPolls returns
    \/ /\ sched.running > 0
       /\ sched' = [ sched EXCEPT !.running = @ - 1 ]
       /\ UNCHANGED <<db, inflight, retired, namedSaved, truth, pending, maxTrue, polls, now, lastLookup, result, extent>>

SpecTimer == InitTimer /\ [][NextTimer]_vars

\* ================================================================ claims

\* A step of one of the four Merger paths that changed the document.
MergerStep ==
    /\ db' # db
    /\ (PollAnswerEvent \/ PollEvent \/ RefreshPollCommand \/ SchedulerRefresh)

\* C1: no option's voterIds ever holds the same negative placeholder id twice,
\* whatever mix of the three aggregate paths delivered the increases.
C1_NoDuplicatePlaceholder ==
    \A i \in OptionIdx :
        \A id \in DOMAIN Negatives(db.options[i].voterIds) :
            CopiesIn(id, db.options[i].voterIds) <= 1

\* C2: after every ledger mutation by a Merger path the persisted
\* total_voter_count equals the Total-Count Reconciler's value of the
\* persisted options.
C2_TotalReconciled ==
    [][ MergerStep => db'.total_voter_count = RecomputeTotal(db'.options) ]_vars

\* C3: once the persisted isClosed is true, no Merger operation changes
\* voterIds, existingVotes or total_voter_count.
C3_ClosedImmutable ==
    [][ (db.isClosed /\ MergerStep) =>
            /\ db'.options = db.options
            /\ db'.total_voter_count = db.total_voter_count ]_vars

\* C6: after any sequence of named-vote events, an option's voterIds holds
\* a user id at most once.
C6_NoDuplicateNamedVote ==
    \A i \in OptionIdx : \A u \in Users : CopiesIn(u, db.options[i].voterIds) <= 1

\* A named vote is recorded beside a placeholder, on an open poll where the
\* same vote can be delivered again.
C6_Witness ==
    \E i \in OptionIdx : \E u \in Users :
        /\ Tracked
        /\ Includes(db.options[i].voterIds, u)
        /\ Length(Negatives(db.options[i].voterIds)) > 0

\* C7: the same snapshot applied twice in a row through the same aggregate
\* path to a tracked open poll: the second application leaves every option's
\* voterIds and existingVotes as the first left them.
C7_SnapshotIdempotent ==
    Tracked =>
        \A snap \in PlatformSnapshots(db.isMultipleChoice) :
            LET pushed == OnPoll(db, snap)
                refreshed == RefreshPoll(db, snap)
                scheduled == RefreshTrackedPoll(db, snap)
            IN /\ OnPoll(pushed, snap).options = pushed.options
               /\ RefreshPoll(refreshed, snap).options = refreshed.options
               /\ RefreshTrackedPoll(scheduled, snap).options = scheduled.options

\* The ledger as a snapshot reporting votes left it: placeholders allocated,
\* every option's existingVotes and the total equal to the snapshot's.
C7_Witness ==
    /\ Tracked
    /\ \E snap \in PlatformSnapshots(db.isMultipleChoice) :
        /\ snap.total_voter_count = db.total_voter_count
        /\ \A i \in OptionIdx : snap.options[i] = db.options[i].existingVotes
        /\ \E i \in OptionIdx :
            /\ snap.options[i] > 0
            /\ Length(Negatives(db.options[i].voterIds)) = snap.options[i]

\* C8: no named-vote event lowers the existingVotes of any option.
C8_NamedVoteNeverLowers ==
    [][ PollAnswerEvent =>
            \A i \in OptionIdx :
                db'.options[i].existingVotes >= db.options[i].existingVotes ]_vars

\* C9: in every persisted state of an open poll, each option's existingVotes
\* is at least the number of positive ids in its voterIds.
C9_BaselineCoversNamed ==
    ~db.isClosed =>
        \A i \in OptionIdx :
            db.options[i].existingVotes >= Length(Positives(db.options[i].voterIds))

\* C10: a placeholder id once allocated to an option and later removed from
\* it is never allocated to that option again.
C10_NeverRecycled ==
    \A i \in OptionIdx : retired[i] \cap DOMAIN db.options[i].voterIds = {}

\* C4: once a named-vote handler has saved user u into option k, u stays in
\* option k's persisted voterIds until a later named-vote event for u is
\* processed, under every interleaving of the handlers' loads and saves.
C4_NamedVoteKept ==
    \A p \in namedSaved : Includes(db.options[p[2]].voterIds, p[1])

\* C5: with every real vote of a tracked open single-choice poll reported by
\* one poll_answer update and one poll update carrying the true counts,
\* handled one after the other in either order, an option's voterIds never has
\* more entries than the largest true voter count the option has had.
C5_NeverDoubleCounts ==
    \A i \in OptionIdx : Length(db.options[i].voterIds) <= maxTrue[i]

\* ------------------------------------------------- aggregate observations
\* Start of a placeholder run as specified: below the lowest negative id of
\* the option, or below the option's base when it has none.
ExpectedStart(voterIds, i) ==
    IF Length(Negatives(voterIds)) > 0 THEN MinOf(Negatives(voterIds)) - 1 ELSE BaseId(i) - 1

\* The step is one aggregate path handling snapshot snap for a tracked open poll.
AggregateStep(snap) ==
    /\ Tracked
    /\ (PollUpdate(snap) \/ RefreshCommand(snap) \/ SchedulerUpdate(snap))

\* C11: an aggregate observation reporting n for an option with
\* existingVotes = e < n appends exactly n - e negative ids, consecutive and
\* descending from (lowest negative id of the option) - 1, or from
\* -1000000*(i+1) - 1 when it has none, and sets existingVotes to n.
C11_IncreaseAllocates ==
    [][ \A snap \in AggSnapshots(db.isMultipleChoice) :
          AggregateStep(snap) =>
            \A i \in OptionIdx :
                LET e == db.options[i].existingVotes
                    n == snap.options[i]
                    ids == db.options[i].voterIds
                IN e < n =>
                     /\ db'.options[i].voterIds =
                            Concat(ids, Descending(ExpectedStart(ids, i), n - e))
                     /\ db'.options[i].existingVotes = n ]_vars

\* The smaller of two numbers.
Least(a, b) == IF a < b THEN a ELSE b

\* C12: an aggregate observation reporting n for an option with
\* existingVotes = e > n removes e - n placeholder ids from the option (all of
\* them when it holds fewer), removes no positive id and sets existingVotes
\* to n, through the push handler, the scheduler and /refreshpoll alike.
C12_DecreaseRemoves ==
    [][ \A snap \in AggSnapshots(db.isMultipleChoice) :
          AggregateStep(snap) =>
            \A i \in OptionIdx :
                LET e == db.options[i].existingVotes
                    n == snap.options[i]
                    ids == db.options[i].voterIds
                    held == Length(Negatives(ids))
                IN e > n =>
                     /\ Length(Negatives(db'.options[i].voterIds)) = held - Least(e - n, held)
                     /\ Positives(db'.options[i].voterIds) = Positives(ids)
                     /\ db'.options[i].existingVotes = n ]_vars

\* C13: on an aggregate decrease the placeholders removed are the ones
\* closest to zero: every id /refreshpoll removes from an option is above
\* every negative id it leaves there ([-1000001,-1000002,-1000003] observing 1
\* loses -1000001 and -1000002 and keeps -1000003).
C13_ClosestToZeroRemoved ==
    [][ \A snap \in AggSnapshots(db.isMultipleChoice) :
          (Tracked /\ RefreshCommand(snap)) =>
            \A i \in OptionIdx :
                LET before == DOMAIN Negatives(db.options[i].voterIds)
                    after == DOMAIN Negatives(db'.options[i].voterIds)
                IN db.options[i].existingVotes > snap.options[i] =>
                     \A removed \in before \ after : \A kept \in after : removed > kept ]_vars

\* ----------------------------------------------------------- named votes
\* The roster entry m mentions user u, by id or by username.
MentionsUser(m, u) == m.userId = u \/ m.username = UserName(u)

\* C14: on a single-choice open poll, a named vote of user u for [j], u being
\* in option i # j, removes u from option i, leaves u exactly once in option
\* j, and when the roster mentions u leaves a mention of u with voted = TRUE.
C14_VoteChangeMoves ==
    [][ \A u \in Users : \A i, j \in OptionIdx :
          ( /\ ~db.isClosed /\ ~db.isMultipleChoice
            /\ i # j
            /\ Includes(db.options[i].voterIds, u)
            /\ PollAnswer(u, <<j>>) ) =>
              /\ ~Includes(db'.options[i].voterIds, u)
              /\ CopiesIn(u, db'.options[j].voterIds) = 1
              /\ (\E k \in 1 .. Len(db.mentions) : MentionsUser(db.mentions[k], u)) =>
                    \E k \in 1 .. Len(db'.mentions) :
                        MentionsUser(db'.mentions[k], u) /\ db'.mentions[k].voted ]_vars

\* A mentioned user whose named vote went to one option and then to another:
\* the first option's baseline still shows the earlier vote.
C14_Witness ==
    \E u \in Users : \E i, j \in OptionIdx :
        /\ ~db.isClosed /\ ~db.isMultipleChoice
        /\ i # j
        /\ db.options[i].existingVotes > 0
        /\ ~Includes(db.options[i].voterIds, u)
        /\ Includes(db.options[j].voterIds, u)
        /\ \E k \in 1 .. Len(db.mentions) :
              MentionsUser(db.mentions[k], u) /\ db.mentions[k].voted

\* C15: a named-vote event of user u (vote, vote change or retraction) leaves
\* every negative id and every other user's id in the options they were in,
\* as often as they were there, and a retraction leaves u in no option.
C15_OnlyOwnMembership ==
    [][ \A u \in NamedUsers : \A ids \in OptionIdSeqs :
          (~db.isClosed /\ PollAnswer(u, ids)) =>
              /\ \A i \in OptionIdx :
                    \A x \in (DOMAIN db.options[i].voterIds \cup DOMAIN db'.options[i].voterIds) \ {u} :
                        CopiesIn(x, db'.options[i].voterIds) = CopiesIn(x, db.options[i].voterIds)
              /\ ids = <<>> => \A i \in OptionIdx : ~Includes(db'.options[i].voterIds, u) ]_vars

\* Two users and a placeholder in one option, the total being the one the
\* poll_answer handler recomputed.
C15_Witness ==
    \E i \in OptionIdx : \E u, v \in NamedUsers :
        /\ ~db.isClosed
        /\ u # v
        /\ Includes(db.options[i].voterIds, u)
        /\ Includes(db.options[i].voterIds, v)
        /\ Length(Negatives(db.options[i].voterIds)) > 0
        /\ db.total_voter_count = Length(db.options[i].voterIds)

\* --------------------------------------------------------- recomputed total
\* Users with at least one entry in some option.
DistinctNamed(options) ==
    Cardinality({ u \in UNION { DOMAIN options[i].voterIds : i \in DOMAIN options } :
                    u > 0 })

\* Entries of all options that are no user's: all entries less the positive ones.
PlaceholderEntries(options) ==
    SumOf([ i \in DOMAIN options |->
              BagCardinality(options[i].voterIds)
                - BagCardinality(Positives(options[i].voterIds)) ], DOMAIN options)

\* Option A voterIds = [10, 20, -1000001], option B voterIds = [20, -2000001, -2000002].
ExampleLedger ==
    << [ voterIds |-> SetToBag({10, 20, 0 - 1000001}), existingVotes |-> 3 ],
       [ voterIds |-> SetToBag({20, 0 - 2000001, 0 - 2000002}), existingVotes |-> 3 ] >>

\* C16: the total the named-vote handler recomputes is the number of distinct
\* positive ids across all options plus the number of negative ids summed
\* over the options; the example ledger gives 5; recomputing on the ledger
\* with the recomputed total stored gives the same value.
C16_RecomputedTotal ==
    /\ RecomputeTotal(db.options) = DistinctNamed(db.options) + PlaceholderEntries(db.options)
    /\ RecomputeTotal(ExampleLedger) = 5
    /\ LET stored == [ db EXCEPT !.total_voter_count = RecomputeTotal(db.options) ]
       IN RecomputeTotal(stored.options) = stored.total_voter_count

\* A user with a vote in two options, beside a placeholder: counted once.
C16_Witness ==
    \E u \in NamedUsers : \E i, j \in OptionIdx :
        /\ i # j
        /\ Includes(db.options[i].voterIds, u)
        /\ Includes(db.options[j].voterIds, u)
        /\ Length(Negatives(db.options[i].voterIds)) > 0
        /\ db.total_voter_count = RecomputeTotal(db.options)

\* ------------------------------------------------------------ poll lookup
\* The inbound id equals no stored pollId and no stored originalPollId.
NoExactMatch(poll_id) ==
    /\ ByPollId(polls, poll_id) = {}
    /\ ByOriginalPollId(polls, poll_id) = {}

\* C17: a named-vote event whose poll id equals no stored pollId and no stored
\* originalPollId, and whose first 10 characters match no open poll's pollId
\* or originalPollId, resolves to NotFound and changes no poll record.
C17_UnknownIdNotFound ==
    [][ \A poll_id \in InboundIds : \A u \in Users : \A ids \in ResolverOptionIds :
          ( /\ NoExactMatch(poll_id)
            /\ PrefixMatches(polls, poll_id) = {}
            /\ ResolverAnswer(poll_id, u, ids) )
          => /\ lastLookup'.poll = NotFound
             /\ polls' = polls ]_vars

\* The field begins with the given characters.
StartsWith(field, prefix) ==
    /\ Len(field) >= Len(prefix)
    /\ SubSeq(field, 1, Len(prefix)) = prefix

\* The open polls whose pollId or originalPollId begins with the first 10
\* characters of the inbound id.
SharingPrefix(poll_id) ==
    { k \in OpenPolls(polls) :
        \/ StartsWith(polls[k].pollId, Substring(poll_id, PrefixLen))
        \/ StartsWith(polls[k].originalPollId, Substring(poll_id, PrefixLen)) }

\* The vote of the event is in poll k after the step.
AppliedTo(k, u, ids) ==
    /\ lastLookup'.poll = k
    /\ \A i \in OptionIdx :
           Includes(polls'[k].options[i].voterIds, u) <=> (\E n \in DOMAIN ids : ids[n] = i)

\* C18: when the inbound poll id of a named-vote event equals no stored pollId
\* or originalPollId but its first 10 characters are the first 10 characters
\* of the pollId or originalPollId of exactly one open poll, the event is
\* applied to that poll and to no other.
C18_SinglePrefixMatch ==
    [][ \A poll_id \in InboundIds : \A u \in Users : \A ids \in ResolverOptionIds :
        \A k \in DOMAIN polls :
          ( /\ NoExactMatch(poll_id)
            /\ SharingPrefix(poll_id) = {k}
            /\ ResolverAnswer(poll_id, u, ids) )
          => /\ AppliedTo(k, u, ids)
             /\ \A j \in DOMAIN polls \ {k} : polls'[j] = polls[j] ]_vars

\* C19 as stated: when more than one open poll matches the 10-character prefix
\* of the inbound poll id, the resolver returns the poll with the most recent
\* update timestamp among all open polls.
C19_MostRecentOfAllOpen ==
    [][ \A poll_id \in InboundIds : \A u \in Users : \A ids \in ResolverOptionIds :
          ( /\ Cardinality(SharingPrefix(poll_id)) > 1
            /\ ResolverAnswer(poll_id, u, ids) )
          => /\ lastLookup'.poll \in OpenPolls(polls)
             /\ \A j \in OpenPolls(polls) :
                    polls[j].updatedAt <= polls[lastLookup'.poll].updatedAt ]_vars

\* C19: when the inbound poll id equals no stored pollId or originalPollId and
\* more than one open poll matches its 10-character prefix, the resolver
\* returns the poll with the most recent update timestamp among the open
\* polls the prefix search found.
C19_MostRecentOfFound ==
    [][ \A poll_id \in InboundIds : \A u \in Users : \A ids \in ResolverOptionIds :
          ( /\ NoExactMatch(poll_id)
            /\ Cardinality(SharingPrefix(poll_id)) > 1
            /\ ResolverAnswer(poll_id, u, ids) )
          => /\ lastLookup'.poll \in PrefixMatches(polls, poll_id)
             /\ \A j \in PrefixMatches(polls, poll_id) :
                    polls[j].updatedAt <= polls[lastLookup'.poll].updatedAt ]_vars

\* The last event had an id stored nowhere, two open polls share its prefix,
\* it went to one of them, and an open poll outside the search's result was
\* updated after every other poll the search found.
C19_Witness ==
    /\ lastLookup.poll # NotFound
    /\ NoExactMatch(lastLookup.poll_id)
    /\ Cardinality(SharingPrefix(lastLookup.poll_id)) > 1
    /\ lastLookup.poll \in SharingPrefix(lastLookup.poll_id)
    /\ \E i \in OptionIdx : Length(polls[lastLookup.poll].options[i].voterIds) > 0
    /\ \E j \in OpenPolls(polls) \ PrefixMatches(polls, lastLookup.poll_id) :
           \A k \in PrefixMatches(polls, lastLookup.poll_id) \ {lastLookup.poll} :
               polls[k].updatedAt < polls[j].updatedAt

\* ---------------------------------------------------------- sanity ceiling
\* Per-option counts the specification treats as corrupt data.
CorruptCounts == { 0 - 1, MaxSaneCount + 1 }

\* Option i was skipped and the other options are as the path leaves them
\* for the same observation without the corrupt count.
OnlyOptionSkipped(before, after, usual, i) ==
    /\ after.options[i] = before.options[i]
    /\ \A j \in OptionIdx \ {i} : after.options[j] = usual.options[j]

\* C20: in every aggregate path (pushed snapshot, /refreshpoll, scheduler
\* refresh) of a tracked open poll, an observed per-option voter_count that is
\* negative or greater than 10,000 leaves that option's voterIds and
\* existingVotes unchanged, while the other options of the observation are
\* processed as usual.
C20_CorruptCountSkipped ==
    Tracked =>
        \A snap \in AggSnapshots(db.isMultipleChoice) : \A i \in OptionIdx :
        \A c \in CorruptCounts :
            LET corrupt == [ snap EXCEPT !.options[i] = c ]
            IN /\ OnlyOptionSkipped(db, RefreshPoll(db, corrupt), RefreshPoll(db, snap), i)
               /\ OnlyOptionSkipped(db, RefreshTrackedPoll(db, corrupt),
                                    RefreshTrackedPoll(db, snap), i)
               /\ OnlyOptionSkipped(db, OnPoll(db, corrupt), OnPoll(db, snap), i)

\* ------------------------------------------------------ unchanged totals
\* C21: an aggregate observation of a tracked open poll whose
\* total_voter_count is not a number, or equals the stored total_voter_count,
\* changes nothing: voterIds and existingVotes of every option and
\* total_voter_count are as before, in the scheduler refresh and in the
\* pushed-snapshot handler.
C21_UnchangedTotalNoOp ==
    Tracked =>
        \A snap \in AggSnapshots(db.isMultipleChoice) :
        \A total \in { db.total_voter_count, NotANumber } :
            LET observed == [ snap EXCEPT !.total_voter_count = total ]
            IN /\ RefreshTrackedPoll(db, observed) = db
               /\ OnPoll(db, observed) = db

\* --------------------------------------------------------- untracked polls
\* C22: a poll whose isTracked is false records the user id of a named vote,
\* and no step adds a negative id to one of its options; a pushed snapshot,
\* a /refreshpoll or a scheduler run leaves voterIds and existingVotes of
\* every option as they were.
C22_UntrackedNoAggregate ==
    [][ ~db.isTracked =>
          /\ \A i \in OptionIdx : \A id \in DOMAIN db'.options[i].voterIds :
                 id < 0 => CopiesIn(id, db'.options[i].voterIds)
                             <= CopiesIn(id, db.options[i].voterIds)
          /\ \A snap \in PlatformSnapshots(db.isMultipleChoice) :
                 (PollUpdate(snap) \/ RefreshCommand(snap) \/ SchedulerUpdate(snap))
                 => db'.options = db.options
          /\ \A u \in Users : \A i \in OptionIdx :
                 (~db.isClosed /\ PollAnswer(u, <<i>>))
                 => Includes(db'.options[i].voterIds, u) ]_vars

\* An untracked poll that holds a named vote and whose stored total, taken
\* from a pushed snapshot, is above what its ledger holds.
C22_Witness ==
    /\ ~db.isTracked
    /\ \E u \in Users : \E i \in OptionIdx : Includes(db.options[i].voterIds, u)
    /\ IsNumber(db.total_voter_count)
    /\ db.total_voter_count > RecomputeTotal(db.options)
    /\ \A i \in OptionIdx : Length(Negatives(db.options[i].voterIds)) = 0

\* ------------------------------------------------------- scheduler batches
\* C23: when there are more tracked open polls than one run takes and the
\* timer keeps firing, every tracked open poll is eventually taken and
\* examined by some run.
C23_FairCoverage ==
    \A p \in SchedPolls :
        (Len(sched.queue) > MAX_POLLS_TO_CHECK /\ p <= Len(sched.queue))
        => <>(p \in sched.examined)

\* The polls a run has gone through, in order.
DonePolls == [ k \in 1 .. Len(sched.done) |-> sched.done[k].poll ]

\* C24: within one run, a failure while handling one poll (its message could
\* not be fetched, or processing or saving it threw) does not end the run:
\* every poll the run selected is either gone through or still to come.
C24_FailureKeepsBatch ==
    DonePolls \o sched.batch = sched.selected

\* A run whose first poll failed and whose second poll was then updated.
C24_Witness ==
    /\ Len(sched.done) >= 2
    /\ sched.done[1].outcome \in { "skipped", "error" }
    /\ sched.done[2].outcome = "updated"
    /\ sched.batch = << >>

C26_MalformedRejected ==
    [][ \A shape \in Shapes \ { WellFormed } :
          /\ \A u \in Users : \A ids \in OptionIdSeqs :
                 AnswerCall(shape, u, ids, FALSE) => (result' = "returned" /\ db' = db)
          /\ \A snap \in PlatformSnapshots(db.isMultipleChoice) :
                 ((~shape.has_data \/ ~shape.has_poll_id) /\ PollCall(shape, snap, FALSE))
                 => (result' = "returned" /\ db' = db) ]_vars

\* ------------------------------------------------------------ the roster
\* The mention is one of user u: by userId, or by username when it has no
\* userId.
MatchesUser(m, u) ==
    \/ m.userId = u
    \/ (m.userId = NullId /\ m.username = UserName(u))

\* The first mention of the roster that is one of u; 0 when there is none.
FirstMatch(mentions, u) ==
    IF \E k \in 1 .. Len(mentions) : MatchesUser(mentions[k], u)
    THEN CHOOSE k \in 1 .. Len(mentions) :
             /\ MatchesUser(mentions[k], u)
             /\ \A j \in 1 .. (k - 1) : ~MatchesUser(mentions[j], u)
    ELSE 0

Selected(ids) == { ids[n] : n \in DOMAIN ids }

\* C28: in the document the poll_answer handler saves for a named vote of
\* user u with a non-empty option_ids on an open multiple-choice poll, u is
\* in every selected option, once where u was absent, and u's membership in
\* every option that is not selected is as it was.
C28_MultipleChoiceAdds ==
    (db.isMultipleChoice /\ ~db.isClosed) =>
        \A u \in NamedUsers : \A ids \in OptionIdSeqs \ { << >> } :
            LET saved == OnPollAnswer(db, UserOf(u), ids).options
            IN \A i \in OptionIdx :
                 /\ i \in Selected(ids) =>
                      CopiesIn(u, saved[i].voterIds) =
                        (IF Includes(db.options[i].voterIds, u)
                         THEN CopiesIn(u, db.options[i].voterIds) ELSE 1)
                 /\ i \notin Selected(ids) =>
                      CopiesIn(u, saved[i].voterIds) = CopiesIn(u, db.options[i].voterIds)

\* A multiple-choice poll on which one user is in both options and another
\* user in one of them.
C28_Witness ==
    /\ db.isMultipleChoice
    /\ \E u, v \in NamedUsers :
         /\ u # v
         /\ \A i \in OptionIdx : Includes(db.options[i].voterIds, u)
         /\ \E i, j \in OptionIdx :
              Includes(db.options[i].voterIds, v) /\ ~Includes(db.options[j].voterIds, v)

\* ----------------------------------------------------------- closing
\* C29: once the persisted isClosed is true, no step makes it false, a save
\* by a handler that loaded the document before poll.close() included.
C29_ClosedStaysClosed == [][ db.isClosed => db'.isClosed ]_vars

\* ------------------------------------------------- placeholder ranges
\* The negative ids of option i: the run from extent[i].lowest to BaseId(i) - 1.
HasRun(i) == extent[i].lowest < 0

\* C30: placeholder ids are scoped by option: every negative id of option i
\* lies below -1000000 * (i + 1) and above -1000000 * (i + 2), and no negative
\* id of option i is a negative id of another option j.
C30_PlaceholdersScoped ==
    \A i \in OptionIdx :
        HasRun(i) =>
            /\ BaseId(i) - 1 < BaseId(i)
            /\ extent[i].lowest > BaseId(i + 1)
            /\ \A j \in OptionIdx \ {i} :
                 HasRun(j) =>
                    \/ extent[i].lowest > BaseId(j) - 1
                    \/ extent[j].lowest > BaseId(i) - 1

\* ------------------------------------------------------ unserialized saves
\* Option i of the persisted document holds a placeholder that the loaded
\* copy w lacks: another handler saved an allocation after w was loaded.
AllocatedSince(w, i) ==
    /\ db.options[i].existingVotes > w.doc.options[i].existingVotes
    /\ \E id \in DOMAIN Negatives(db.options[i].voterIds) :
         ~Includes(w.doc.options[i].voterIds, id)

\* C31: reconciliations of one poll are not serialized: the save of a push
\* handler or scheduler refresh that loaded the record before another
\* handler saved always succeeds and puts the voterIds and existingVotes of
\* its own copy in the place of the persisted ones, whatever was allocated in
\* between.
C31_LaterSaveOverwrites ==
    [][ \A w \in inflight :
          (w.by \in { "poll", "sched" } /\ inflight' = inflight \ {w}) =>
              \A i \in OptionIdx :
                  /\ db'.options[i].voterIds = w.doc.options[i].voterIds
                  /\ db'.options[i].existingVotes = w.doc.options[i].existingVotes ]_vars

\* A scheduler refresh holds a copy loaded before another handler saved a
\* placeholder allocation that the copy lacks; its save is still to come.
C31_Witness ==
    \E w \in inflight :
        /\ w.by = "sched"
        /\ \E i \in OptionIdx : AllocatedSince(w, i)

\* ----------------------------------------------------------- fetch loop
\* The fetch methods in the order of the switch.
FetchMethods == << "getMessage", "forwardMessage", "getPoll" >>

\* C32: the fetch loop of a poll makes at most 3 attempts, attempt k uses
\* fetch method k (direct message, forward, getPoll), no attempt follows one
\* that yielded a message, the loop ends without a message only after all 3
\* failed, and the step that skips the poll leaves the document as it was.
C32_FetchBounded ==
    /\ [](/\ sched.attempts <= TELEGRAM_MAX_RETRIES
          /\ Len(sched.tried) = sched.attempts
          /\ \A k \in 1 .. Len(sched.tried) :
               /\ sched.tried[k].method = FetchMethods[k]
               /\ k < Len(sched.tried) => ~sched.tried[k].yielded
          /\ sched.outcome = "skipped" =>
               /\ sched.attempts = TELEGRAM_MAX_RETRIES
               /\ \A k \in 1 .. Len(sched.tried) : ~sched.tried[k].yielded)
    /\ [][ sched'.outcome = "skipped" => db' = db ]_vars

\* A poll that holds a placeholder was skipped after three failed attempts.
C32_Witness ==
    /\ sched.outcome = "skipped"
    /\ Len(sched.tried) = TELEGRAM_MAX_RETRIES
    /\ \E i \in OptionIdx : Length(Negatives(db.options[i].voterIds)) > 0

\* ------------------------------------------------------ duplicate events
\* C33: handling the same poll_answer event (same user, same option_ids, the
\* empty retraction included) a second time right after the first leaves the
\* same set of ids in every option's voterIds, the same existingVotes, the
\* same mentions and the same total_voter_count as handling it once.
C33_DuplicateEventNoOp ==
    ~db.isClosed =>
        \A u \in Users : \A ids \in OptionIdSeqs :
            LET once == OnPollAnswer(db, UserOf(u), ids)
                twice == OnPollAnswer(once, UserOf(u), ids)
            IN /\ \A i \in OptionIdx :
                    /\ DOMAIN twice.options[i].voterIds = DOMAIN once.options[i].voterIds
                    /\ twice.options[i].existingVotes = once.options[i].existingVotes
               /\ twice.mentions = once.mentions
               /\ twice.total_voter_count = once.total_voter_count

\* A poll whose roster has a mention marked as voted, with that user in an
\* option: the state a first delivery leaves for the second.
C33_Witness ==
    /\ ~db.isClosed
    /\ \E k \in 1 .. Len(db.mentions) :
         /\ db.mentions[k].voted
         /\ db.mentions[k].userId \in Users
         /\ \E i \in OptionIdx : Includes(db.options[i].voterIds, db.mentions[k].userId)

\* --------------------------------------------------------- option list
\* C34: no handler adds, removes or reorders the options of a poll: in every
\* step the option indices stay the same and every index keeps its option
\* (its text), and the poll has at least 2 options in every state.
C34_OptionsFixed ==
    /\ [](Cardinality(DOMAIN db.options) >= MinOptions)
    /\ [][ /\ DOMAIN db'.options = DOMAIN db.options
           /\ \A i \in DOMAIN db.options : db'.options[i].text = db.options[i].text ]_vars

\* A tracked poll on which a named vote and an aggregate observation have
\* acted: a user id in one option, a placeholder in the last one, which has
\* the larger count.
C34_Witness ==
    /\ db.isTracked
    /\ \E i \in OptionIdx : Length(Positives(db.options[i].voterIds)) > 0
    /\ Length(Negatives(db.options[NumOptions - 1].voterIds)) > 0
    /\ db.options[NumOptions - 1].existingVotes > db.options[0].existingVotes

\* ------------------------------------------------- one option per voter
\* C35: on a single-choice poll, whatever named-vote events were handled
\* (events with several indices or with an index out of range included), no
\* positive id is in the voterIds of two options.
C35_SingleChoiceOneOption ==
    ~db.isMultipleChoice =>
        \A i, j \in OptionIdx :
            i # j => \A id \in DOMAIN Positives(db.options[i].voterIds) :
                        ~Includes(db.options[j].voterIds, id)

\* A single-choice poll after votes that moved: one user is in the last
\* option and another in the first, and the first option's baseline counts
\* one voter more than it holds.
C35_Witness ==
    /\ ~db.isMultipleChoice
    /\ \E u, v \in NamedUsers :
         /\ u # v
         /\ Includes(db.options[NumOptions - 1].voterIds, u)
         /\ Includes(db.options[0].voterIds, v)
         /\ db.options[0].existingVotes > Length(db.options[0].voterIds)

\* ----------------------------------------------------------- convergence
\* C36: once the platform's counts of a tracked open poll have stopped
\* changing, a scheduler refresh that fetches them leaves every option's
\* existingVotes equal to the platform's voter count of that option.
C36_RefreshConverges ==
    [][ PlatSched =>
          \A i \in OptionIdx : db'.options[i].existingVotes = TrueCount(truth, i) ]_vars

\* ---------------------------------------------------------------- timers
\* C37: after stopPollingService has returned and until setupPollingService
\* is called again, no run of updateTrackedPolls starts, whatever timers
\* (the 5 second startup timer included) were armed before.
C37_NoRunAfterStop ==
    [][ (sched.stopped /\ sched'.stopped) => sched'.running <= sched.running ]_vars

\* C38: at most one run of updateTrackedPolls is in progress at any time.
C38_OneRunAtATime == sched.running <= 1

====
